---- MODULE Spec2Model ----
(***************************************************************************)
(* Resume Curator frontend: the analysis orchestration code                *)
(*   - useAnalysis (hooks/useApi.js): setInterval-driven polling hook      *)
(*   - pollAnalysis / App.handleAnalyze (services/api, App): sequential    *)
(*     polling loop and the upload -> input -> analyze -> results flow    *)
(*   - useFormValidation (hooks/useFormValidation.js): handleSubmit and    *)
(*     the debounced form validation                                       *)
(* null is modelled by the string "null"; a cleared interval reference by  *)
(* the interval id 0.                                                      *)
(***************************************************************************)
EXTENDS Integers, Sequences, FiniteSets, TLC

\* ------------------------------------------------------------------ bounds
\* number of startAnalysis calls made on one useAnalysis hook instance
MaxJobs == 2
\* number of tick callbacks of one interval that may be awaiting a response
MaxInFlight == 2
\* number of interval ticks followed per job in the general hook specification
MaxPolls == 3

Jobs == 1..MaxJobs

\* ------------------------------------------------- useAnalysis (useApi.js)
VARIABLES
  analyzing,            \* useState(false)
  progress,             \* useState(0)
  currentStep,          \* useState('')
  error,                \* useState(null): the code of the error object
  result,               \* useState(null)
  analysisId,           \* useState(null)
  pollingIntervalRef,   \* useRef(null): id of the last interval created, 0 = null
  startCall,            \* per startAnalysis call: position of the async function,
                        \* or the code of the error it threw
  intervalActive,       \* per call: its setInterval timer exists and is not cleared
  progressInFlight,     \* per call: tick callbacks awaiting getAnalysisProgress
  resultInFlight,       \* per call: tick callbacks awaiting getAnalysisResult
  issued,               \* per call: number of getAnalysisProgress requests sent
  submits,              \* per call: number of apiService.startAnalysis requests sent
  cancelled,            \* cancelAnalysis ran and no startAnalysis since
  onlyNonTerminal,      \* every progress response so far was 'processing'
  pollFailed            \* per call: a tick callback of the call ran its catch

hookVars == <<analyzing, progress, currentStep, error, result, analysisId,
              pollingIntervalRef, startCall, intervalActive, progressInFlight,
              resultInFlight, issued, submits, cancelled, onlyNonTerminal,
              pollFailed>>

\* statuses a progress response can carry
ProgressStatuses == {"processing", "completed", "failed"}
\* progress_percentage values a progress response can carry
ProgressValues == {25, 75}
\* error codes of a rejected apiService call (one retryable, one not)
TransportErrorCodes == {"NETWORK_ERROR", "VALIDATION_ERROR"}

\* isRetryableError: membership of error.code in retryableCodes
isRetryableError(code) ==
  code \in {"NETWORK_ERROR", "TIMEOUT", "SERVER_ERROR", "BAD_GATEWAY",
            "SERVICE_UNAVAILABLE"}

\* clearInterval(pollingIntervalRef.current): stops the interval the ref names
ClearInterval(active, ref) ==
  IF ref \in DOMAIN active THEN [active EXCEPT ![ref] = FALSE] ELSE active

HookInit ==
  /\ analyzing = FALSE
  /\ progress = 0
  /\ currentStep = ""
  /\ error = "null"
  /\ result = "null"
  /\ analysisId = 0
  /\ pollingIntervalRef = 0
  /\ startCall = [j \in Jobs |-> "idle"]
  /\ intervalActive = [j \in Jobs |-> FALSE]
  /\ progressInFlight = [j \in Jobs |-> 0]
  /\ resultInFlight = [j \in Jobs |-> 0]
  /\ issued = [j \in Jobs |-> 0]
  /\ submits = [j \in Jobs |-> 0]
  /\ cancelled = FALSE
  /\ onlyNonTerminal = TRUE
  /\ pollFailed = [j \in Jobs |-> FALSE]

\* startAnalysis up to its first await: resets the state, sends the start request
StartAnalysis(j) ==
  /\ startCall[j] = "idle"
  /\ \A k \in Jobs : k < j => startCall[k] # "idle"
  /\ analyzing' = TRUE
  /\ progress' = 0
  /\ currentStep' = "Starting analysis..."
  /\ error' = "null"
  /\ result' = "null"
  /\ startCall' = [startCall EXCEPT ![j] = "awaitStart"]
  /\ submits' = [submits EXCEPT ![j] = @ + 1]
  /\ cancelled' = FALSE
  /\ UNCHANGED <<analysisId, pollingIntervalRef, intervalActive,
                 progressInFlight, resultInFlight, issued, onlyNonTerminal>>
  /\ UNCHANGED pollFailed

\* apiService.startAnalysis resolved: the id is stored and the interval created
StartResolved(j) ==
  /\ startCall[j] = "awaitStart"
  /\ analysisId' = j
  /\ pollingIntervalRef' = j
  /\ intervalActive' = [intervalActive EXCEPT ![j] = TRUE]
  /\ startCall' = [startCall EXCEPT ![j] = "returned"]
  /\ UNCHANGED <<analyzing, progress, currentStep, error, result,
                 progressInFlight, resultInFlight, issued, submits, cancelled,
                 onlyNonTerminal>>
  /\ UNCHANGED pollFailed

\* apiService.startAnalysis rejected: the outer catch
StartRejected(j, code) ==
  /\ startCall[j] = "awaitStart"
  /\ analyzing' = FALSE
  /\ error' = code
  /\ startCall' = [startCall EXCEPT ![j] = code]
  /\ UNCHANGED <<progress, currentStep, result, analysisId, pollingIntervalRef,
                 intervalActive, progressInFlight, resultInFlight, issued,
                 submits, cancelled, onlyNonTerminal>>
  /\ UNCHANGED pollFailed

\* one firing of the interval: the async callback sends getAnalysisProgress
PollTick(j) ==
  /\ intervalActive[j]
  /\ progressInFlight[j] + resultInFlight[j] < MaxInFlight
  /\ progressInFlight' = [progressInFlight EXCEPT ![j] = @ + 1]
  /\ issued' = [issued EXCEPT ![j] = @ + 1]
  /\ UNCHANGED <<analyzing, progress, currentStep, error, result, analysisId,
                 pollingIntervalRef, startCall, intervalActive, resultInFlight,
                 submits, cancelled, onlyNonTerminal>>
  /\ UNCHANGED pollFailed

\* getAnalysisProgress resolved inside a tick callback of call j
ProgressResolved(j, status, pct) ==
  /\ progressInFlight[j] > 0
  /\ progressInFlight' = [progressInFlight EXCEPT ![j] = @ - 1]
  /\ progress' = pct
  /\ currentStep' = "Analyzing"
  /\ onlyNonTerminal' = (onlyNonTerminal /\ status = "processing")
  /\ CASE status = "completed" ->
            /\ intervalActive' = ClearInterval(intervalActive, pollingIntervalRef)
            /\ resultInFlight' = [resultInFlight EXCEPT ![j] = @ + 1]
            /\ UNCHANGED <<analyzing, error>>
       [] status = "failed" ->
            /\ intervalActive' = ClearInterval(intervalActive, pollingIntervalRef)
            /\ analyzing' = FALSE
            /\ error' = "ANALYSIS_FAILED"
            /\ UNCHANGED resultInFlight
       [] OTHER ->
            UNCHANGED <<intervalActive, resultInFlight, analyzing, error>>
  /\ UNCHANGED <<result, analysisId, pollingIntervalRef, startCall, issued,
                 submits, cancelled>>
  /\ pollFailed' = [pollFailed EXCEPT ![j] = @ \/ status = "failed"]

\* getAnalysisProgress rejected: the tick's catch
ProgressRejected(j, code) ==
  /\ progressInFlight[j] > 0
  /\ progressInFlight' = [progressInFlight EXCEPT ![j] = @ - 1]
  /\ intervalActive' = ClearInterval(intervalActive, pollingIntervalRef)
  /\ analyzing' = FALSE
  /\ error' = code
  /\ UNCHANGED <<progress, currentStep, result, analysisId, pollingIntervalRef,
                 startCall, resultInFlight, issued, submits, cancelled,
                 onlyNonTerminal>>
  /\ pollFailed' = [pollFailed EXCEPT ![j] = TRUE]

\* getAnalysisResult resolved
ResultResolved(j) ==
  /\ resultInFlight[j] > 0
  /\ resultInFlight' = [resultInFlight EXCEPT ![j] = @ - 1]
  /\ result' = "report"
  /\ analyzing' = FALSE
  /\ UNCHANGED <<progress, currentStep, error, analysisId, pollingIntervalRef,
                 startCall, intervalActive, progressInFlight, issued, submits,
                 cancelled, onlyNonTerminal>>
  /\ UNCHANGED pollFailed

\* getAnalysisResult rejected: the tick's catch
ResultRejected(j, code) ==
  /\ resultInFlight[j] > 0
  /\ resultInFlight' = [resultInFlight EXCEPT ![j] = @ - 1]
  /\ intervalActive' = ClearInterval(intervalActive, pollingIntervalRef)
  /\ analyzing' = FALSE
  /\ error' = code
  /\ UNCHANGED <<progress, currentStep, result, analysisId, pollingIntervalRef,
                 startCall, progressInFlight, issued, submits, cancelled,
                 onlyNonTerminal>>
  /\ pollFailed' = [pollFailed EXCEPT ![j] = TRUE]

cancelAnalysis ==
  /\ intervalActive' = ClearInterval(intervalActive, pollingIntervalRef)
  /\ analyzing' = FALSE
  /\ progress' = 0
  /\ currentStep' = ""
  /\ cancelled' = TRUE
  /\ UNCHANGED <<error, result, analysisId, pollingIntervalRef, startCall,
                 progressInFlight, resultInFlight, issued, submits,
                 onlyNonTerminal>>
  /\ UNCHANGED pollFailed

\* reset: cancelAnalysis, then error, result and analysisId are cleared
resetAnalysis ==
  /\ intervalActive' = ClearInterval(intervalActive, pollingIntervalRef)
  /\ analyzing' = FALSE
  /\ progress' = 0
  /\ currentStep' = ""
  /\ cancelled' = TRUE
  /\ error' = "null"
  /\ result' = "null"
  /\ analysisId' = 0
  /\ UNCHANGED <<pollingIntervalRef, startCall, progressInFlight,
                 resultInFlight, issued, submits, onlyNonTerminal>>
  /\ UNCHANGED pollFailed


\* --------------------------------- App and pollAnalysis (App, services/api)
VARIABLES
  appCurrentStep,       \* App currentStep: 'upload' | 'input' | 'analyze' | 'results'
  resumeData,           \* App resumeData
  jobDescription,       \* App jobDescription, represented by its length
  isProcessing,         \* App isProcessing
  analysisResults,      \* App analysisResults
  appError,             \* App error (a message)
  uploadCall,           \* position of the running handleFileSelect call
  analyzeCall,          \* position of the running handleAnalyze / pollAnalysis call
  attempt,              \* pollAnalysis loop variable
  startRequests,        \* startAnalysis requests sent by the running handleAnalyze
  statusRequests,       \* getAnalysis requests sent by the running pollAnalysis
  consecutive404,       \* number of 404 answers in a row, up to the latest answer
  lastStatus            \* status carried by the latest getAnalysis answer

appVars == <<appCurrentStep, resumeData, jobDescription, isProcessing,
             analysisResults, appError, uploadCall, analyzeCall, attempt,
             startRequests, statusRequests, consecutive404, lastStatus>>

\* pollAnalysis(analysisId, maxAttempts = 30, intervalMs = 2000)
maxAttempts == 30
\* TextValidation.JOB_DESCRIPTION_MIN_LENGTH and the literal 50 of handleAnalyze
JOB_DESCRIPTION_MIN_LENGTH == 50

\* lengths of the job description text the user can enter
JobDescriptionLengths == {0, JOB_DESCRIPTION_MIN_LENGTH - 1, JOB_DESCRIPTION_MIN_LENGTH}
\* analysis_data.status of a getAnalysis answer; "nodata": analysis_data absent
StatusPayloads == {"processing", "pending", "completed", "failed", "nodata"}
\* ApiError.status of a rejected request: 0 = network error
ApiErrorStatuses == {0, 404, 500}

\* ApiError.message built by makeRequest
ApiErrorMessage(status) ==
  IF status = 0 THEN "Network error. Please check your connection."
  ELSE IF status = 404 THEN "HTTP 404" ELSE "HTTP 500"

ValidationMessage ==
  "Please upload a resume and provide a job description (minimum 50 characters)"

\* pollAnalysis: the answer ends the loop (line 243-245)
IsTerminalPayload(payload) ==
  payload # "nodata" /\ payload # "processing" /\ payload # "pending"

\* HasNextAttempt that holds of the last attempt as well
HasNextAttempt_Always(att) == TRUE

\* pollAnalysis: another attempt follows this one (line 250)
HasNextAttempt(att) == att < maxAttempts - 1

\* Tolerated404 without the check that another attempt is left
Tolerated404_AnyAttempt(status, att) == status = 404

\* pollAnalysis catch: the failure is swallowed and polling goes on (line 255)
Tolerated404(status, att) == status = 404 /\ att < maxAttempts - 1

\* CanAnalyze without the minimum length of the job description
CanAnalyze_NoMinLength(resume, len) == ~(resume = "null")

\* handleAnalyze: the guard that lets the submission through (line 588)
CanAnalyze(resume, len) == ~(resume = "null" \/ len < JOB_DESCRIPTION_MIN_LENGTH)

AppInit ==
  /\ appCurrentStep = "upload"
  /\ resumeData = "null"
  /\ jobDescription = 0
  /\ isProcessing = FALSE
  /\ analysisResults = "null"
  /\ appError = "null"
  /\ uploadCall = "idle"
  /\ analyzeCall = "idle"
  /\ attempt = 0
  /\ startRequests = 0
  /\ statusRequests = 0
  /\ consecutive404 = 0
  /\ lastStatus = "none"

pollVars == <<analyzeCall, attempt, startRequests, statusRequests,
              consecutive404, lastStatus>>

\* handleFileSelect(file, fileError) with a file error: only the error is set
handleFileSelectError ==
  /\ uploadCall = "idle"
  /\ appError' = "Please select a PDF file"
  /\ UNCHANGED <<appCurrentStep, resumeData, jobDescription, isProcessing,
                 analysisResults, uploadCall>>
  /\ UNCHANGED pollVars

\* handleFileSelect(file, null) up to the await of uploadResume
handleFileSelect ==
  /\ uploadCall = "idle"
  /\ appError' = "null"
  /\ isProcessing' = TRUE
  /\ uploadCall' = "awaitUpload"
  /\ UNCHANGED <<appCurrentStep, resumeData, jobDescription, analysisResults>>
  /\ UNCHANGED pollVars

UploadResolved ==
  /\ uploadCall = "awaitUpload"
  /\ resumeData' = "resume"
  /\ appCurrentStep' = "input"
  /\ isProcessing' = FALSE
  /\ uploadCall' = "idle"
  /\ UNCHANGED <<jobDescription, analysisResults, appError>>
  /\ UNCHANGED pollVars

UploadRejected(status) ==
  /\ uploadCall = "awaitUpload"
  /\ appError' = IF status = 0 THEN "Upload failed. Please check your connection."
                 ELSE "Upload failed: HTTP 500"
  /\ isProcessing' = FALSE
  /\ uploadCall' = "idle"
  /\ UNCHANGED <<appCurrentStep, resumeData, jobDescription, analysisResults>>
  /\ UNCHANGED pollVars

handleJobDescriptionChange(len) ==
  /\ jobDescription' = len
  /\ appError' = "null"
  /\ UNCHANGED <<appCurrentStep, resumeData, isProcessing, analysisResults,
                 uploadCall>>
  /\ UNCHANGED pollVars

\* handleAnalyze: the early return, or the part up to the await of startAnalysis
handleAnalyze ==
  /\ analyzeCall = "idle"
  /\ IF CanAnalyze(resumeData, jobDescription)
       THEN /\ isProcessing' = TRUE
            /\ appError' = "null"
            /\ appCurrentStep' = "analyze"
            /\ analyzeCall' = "awaitStart"
            /\ startRequests' = 1
            /\ statusRequests' = 0
            /\ attempt' = 0
            /\ consecutive404' = 0
            /\ lastStatus' = "none"
       ELSE /\ appError' = ValidationMessage
            /\ UNCHANGED <<isProcessing, appCurrentStep>>
            /\ UNCHANGED pollVars
  /\ UNCHANGED <<resumeData, jobDescription, analysisResults, uploadCall>>

\* the catch and finally blocks of handleAnalyze
AnalyzeCaught(message) ==
  /\ appError' = message
  /\ appCurrentStep' = "input"
  /\ isProcessing' = FALSE
  /\ analyzeCall' = "idle"
  /\ UNCHANGED <<resumeData, jobDescription, analysisResults, uploadCall>>

\* startAnalysis resolved: pollAnalysis starts and sends its first getAnalysis
AnalyzeStartResolved ==
  /\ analyzeCall = "awaitStart"
  /\ analyzeCall' = "awaitStatus"
  /\ attempt' = 0
  /\ statusRequests' = 1
  /\ UNCHANGED <<appCurrentStep, resumeData, jobDescription, isProcessing,
                 analysisResults, appError, uploadCall, startRequests,
                 consecutive404, lastStatus>>

AnalyzeStartRejected(status) ==
  /\ analyzeCall = "awaitStart"
  /\ AnalyzeCaught(ApiErrorMessage(status))
  /\ UNCHANGED <<attempt, startRequests, statusRequests, consecutive404,
                 lastStatus>>

\* getAnalysis resolved in pollAnalysis
StatusResolved(payload) ==
  /\ analyzeCall = "awaitStatus"
  /\ lastStatus' = payload
  /\ consecutive404' = 0
  /\ UNCHANGED <<startRequests, statusRequests>>
  /\ IF IsTerminalPayload(payload)
       THEN \* return result; handleAnalyze transforms and shows it
            /\ analysisResults' = "report"
            /\ appCurrentStep' = "results"
            /\ isProcessing' = FALSE
            /\ analyzeCall' = "idle"
            /\ UNCHANGED <<resumeData, jobDescription, appError, uploadCall,
                           attempt>>
       ELSE IF HasNextAttempt(attempt)
         THEN /\ analyzeCall' = "waiting"
              /\ UNCHANGED <<appCurrentStep, resumeData, jobDescription,
                             isProcessing, analysisResults, appError,
                             uploadCall, attempt>>
         ELSE \* the loop ends: throw new ApiError('Analysis timed out', 408)
              /\ attempt' = attempt + 1
              /\ AnalyzeCaught("Analysis timed out")

\* getAnalysis rejected in pollAnalysis
StatusRejected(status) ==
  /\ analyzeCall = "awaitStatus"
  /\ lastStatus' = "error"
  /\ consecutive404' = IF status = 404 THEN consecutive404 + 1 ELSE 0
  /\ UNCHANGED <<startRequests, statusRequests, attempt>>
  /\ IF Tolerated404(status, attempt)
       THEN /\ analyzeCall' = "waiting"
            /\ UNCHANGED <<appCurrentStep, resumeData, jobDescription,
                           isProcessing, analysisResults, appError, uploadCall>>
       ELSE AnalyzeCaught(ApiErrorMessage(status))

\* the setTimeout(intervalMs) of pollAnalysis elapsed: next attempt
WaitElapsed ==
  /\ analyzeCall = "waiting"
  /\ IF attempt + 1 < maxAttempts
       THEN /\ attempt' = attempt + 1
            /\ analyzeCall' = "awaitStatus"
            /\ statusRequests' = statusRequests + 1
            /\ UNCHANGED <<appCurrentStep, resumeData, jobDescription,
                           isProcessing, analysisResults, appError, uploadCall>>
       ELSE /\ attempt' = attempt + 1
            /\ UNCHANGED statusRequests
            /\ AnalyzeCaught("Analysis timed out")
  /\ UNCHANGED <<startRequests, consecutive404, lastStatus>>

\* handleStartOver without setCurrentStep('upload')
handleStartOver_KeepsStep ==
  /\ appCurrentStep' = appCurrentStep
  /\ resumeData' = "null"
  /\ jobDescription' = 0
  /\ analysisResults' = "null"
  /\ appError' = "null"
  /\ UNCHANGED <<isProcessing, uploadCall>>
  /\ UNCHANGED pollVars

\* handleStartOver()
handleStartOver ==
  /\ appCurrentStep' = "upload"
  /\ resumeData' = "null"
  /\ jobDescription' = 0
  /\ analysisResults' = "null"
  /\ appError' = "null"
  /\ UNCHANGED <<isProcessing, uploadCall>>
  /\ UNCHANGED pollVars


\* ------------------------------ useFormValidation (useFormValidation.js)
\* The hook is instantiated with ValidationSchemas.analysisForm and the
\* default options.  A text value is represented by the class of texts it
\* belongs to, a file by "null", "good" (valid) or "big" (over the size limit);
\* an error or warning message by the name of its type.  An absent key of the
\* errors or warnings object and a key holding [] are both the empty sequence.
VARIABLES
  values,               \* useState(initialValues)
  errors,               \* useState({}): key -> messages
  warnings,             \* useState({}): key -> messages
  touched,              \* useState({}): the fields whose key is true
  isValidating,         \* useState(false)
  isValid,              \* useState(false)
  hasBeenSubmitted,     \* useState(false)
  validationTimeouts,   \* useRef({}): per field, value captured by the pending timer
  formTimer,            \* timeoutId of the debounced validator: the pending call
  effectPending,        \* the values/touched/hasBeenSubmitted effect has not run yet
  timerOrder,           \* the pending timers, in the order they were created
  submitCall,           \* position or outcome of the latest handleSubmit call
  lastOnSubmit,         \* arguments of the latest onSubmit invocation
  lastFieldEvent        \* the latest handler call, if handleChange or handleBlur

formVars == <<values, errors, warnings, touched, isValidating,
              isValid, hasBeenSubmitted, validationTimeouts, formTimer,
              effectPending, timerOrder, submitCall, lastOnSubmit>>

\* keys of ValidationSchemas.analysisForm, in schema order
SchemaFields == <<"file", "jobDescription">>
Fields == {"file", "jobDescription"}
\* keys the errors and warnings objects can get
Keys == {"file", "jobDescription", "resume file", "job description",
         "job_description", "_form"}
\* file values; text values after and before sanitizeText
FileValues == {"null", "good", "big"}
TextValues == {"", "short", "good"}
RawTextValues == {"", "blank", "short", "good"}
FieldValues(f) == IF f = "file" THEN FileValues ELSE TextValues
RawFieldValues(f) == IF f = "file" THEN FileValues ELSE RawTextValues

\* sanitizeText on a class of texts: a whitespace-only text is trimmed to ''
sanitizeText(text) == IF text = "blank" THEN "" ELSE text

Msg(f, m) == [field |-> f, message |-> m]

\* validateRequired(value, fieldName): errors
validateRequired(value, fieldName) ==
  IF value = "null" \/ value = "" THEN <<Msg(fieldName, "REQUIRED")>> ELSE <<>>

\* validateFile(file, {fieldName: 'Resume file'}): errors
validateFile(file) ==
  IF file = "null" THEN <<Msg("resume file", "REQUIRED")>>
  ELSE IF file = "big" THEN <<Msg("resume file", "FILE_TOO_LARGE")>>
  ELSE <<>>

\* validateJobDescription(text): errors
validateJobDescriptionErrors(text) ==
  validateRequired(text, "job description")
    \o (IF text = "blank" THEN <<Msg("job description", "WHITESPACE_ONLY")>>
        ELSE <<>>)
    \o (IF text # "good" THEN <<Msg("job description", "MIN_LENGTH")>> ELSE <<>>)

\* validateJobDescription(text): warnings
validateJobDescriptionWarnings(text) ==
  IF text = "short"
    THEN <<Msg("job_description", "SHORT_CONTENT"),
           Msg("job_description", "INCOMPLETE_CONTENT")>>
    ELSE <<>>

\* the rules of one field of the analysisForm schema
FieldErrors(f, value) ==
  IF f = "file" THEN validateRequired(value, "file") \o validateFile(value)
  ELSE validateJobDescriptionErrors(value)

FieldWarnings(f, value) ==
  IF f = "file" THEN <<>> ELSE validateJobDescriptionWarnings(value)

RECURSIVE ConcatOver(_, _, _)
\* concatenation of Op(f, formData[f]) over the fields fs, in order
ConcatOver(fs, formData, kind) ==
  IF fs = <<>> THEN <<>>
  ELSE (IF kind = "errors" THEN FieldErrors(Head(fs), formData[Head(fs)])
        ELSE FieldWarnings(Head(fs), formData[Head(fs)]))
       \o ConcatOver(Tail(fs), formData, kind)

\* validateForm(formData, validationRules) for the rules of the fields fs
validateForm(formData, fs) ==
  LET errs == ConcatOver(fs, formData, "errors")
  IN [isValid |-> errs = <<>>,
      errors |-> errs,
      warnings |-> ConcatOver(fs, formData, "warnings")]

RECURSIVE MessagesFor(_, _)
\* list.filter(e => e.field === key).map(e => e.message)
MessagesFor(list, key) ==
  IF list = <<>> THEN <<>>
  ELSE (IF Head(list).field = key THEN <<Head(list).message>> ELSE <<>>)
       \o MessagesFor(Tail(list), key)

\* validateFormData: the fieldErrors / fieldWarnings object built from a list
GroupByField(list) == [k \in Keys |-> MessagesFor(list, k)]

NoTimer == "none"
initialValues == [f \in Fields |-> IF f = "file" THEN "null" ELSE ""]
\* no pending call of the debounced validator; no onSubmit invocation yet
NoFormTimer == [data |-> initialValues, waiter |-> "none"]
NoOnSubmit == [values |-> initialValues, isValid |-> FALSE, invoked |-> FALSE]

\* setTimeout / clearTimeout with the one debounceDelay every timer of the hook
\* uses: timers come due in the order of their creation.  Timer names are the
\* field names and "form" (the timeoutId of the debounced validator).
ClearTimer(order, t) == SelectSeq(order, LAMBDA x : x # t)
SetTimer(order, t) == Append(ClearTimer(order, t), t)

\* TimerDue without the order of creation
TimerDue_AnyOrder(order, t) == \E i \in DOMAIN order : order[i] = t

\* the timer t is the next one to fire
TimerDue(order, t) == order # <<>> /\ Head(order) = t

\* no handler call yet, or the latest one was neither handleChange nor handleBlur
\* (hadTimer is recorded for handleBlur, hadErrors for handleChange)
NoFieldEvent ==
  [name |-> "none", field |-> "none", hadTimer |-> FALSE, hadErrors |-> FALSE]

\* the latest handler call was reset
ResetEvent == [NoFieldEvent EXCEPT !.name = "reset"]

FormInit ==
  /\ values = initialValues
  /\ errors = [k \in Keys |-> <<>>]
  /\ warnings = [k \in Keys |-> <<>>]
  /\ touched = {}
  /\ isValidating = FALSE
  /\ isValid = FALSE
  /\ hasBeenSubmitted = FALSE
  /\ validationTimeouts = [f \in Fields |-> NoTimer]
  /\ formTimer = NoFormTimer
  /\ effectPending = FALSE
  /\ timerOrder = <<>>
  /\ submitCall = "idle"
  /\ lastOnSubmit = NoOnSubmit
  /\ lastFieldEvent = NoFieldEvent

\* setErrors(prev => ({...prev, [fieldName]: []})) without the assignment
WithoutErrors_Kept(errs, f) == errs

\* setErrors(prev => ({...prev, [fieldName]: []}))
WithoutErrors(errs, f) == [errs EXCEPT ![f] = <<>>]

\* ClearFieldTimeout without the clearTimeout
ClearFieldTimeout_Kept(pending, f) == pending

\* validateField: clearTimeout(validationTimeouts.current[fieldName]), on the
\* record of the per-field timers and the order of all pending timers
ClearFieldTimeout(pending, f) ==
  [timeouts |-> [pending.timeouts EXCEPT ![f] = NoTimer],
   order |-> ClearTimer(pending.order, f)]

\* handleChange: the condition under which validateField is called
ValidatesOnChange(f, tch, submitted) == f \in tch \/ submitted

\* handleChange(fieldName, value)
handleChange(f, raw) ==
  LET sanitizedValue == IF f = "file" THEN raw ELSE sanitizeText(raw) IN
  /\ ~effectPending
  /\ values' = [values EXCEPT ![f] = sanitizedValue]
  /\ errors' = WithoutErrors(errors, f)
  /\ IF ValidatesOnChange(f, touched, hasBeenSubmitted)
       THEN /\ validationTimeouts' =
                 [validationTimeouts EXCEPT ![f] = sanitizedValue]
            /\ timerOrder' = SetTimer(timerOrder, f)
       ELSE UNCHANGED <<validationTimeouts, timerOrder>>
  /\ effectPending' = TRUE
  /\ UNCHANGED <<warnings, touched, isValidating, isValid,
                 hasBeenSubmitted, formTimer, submitCall, lastOnSubmit>>

\* what performValidation stores for the field: the messages of
\* validateForm({[fieldName]: fieldValue}, {[fieldName]: schema[fieldName]})
\* whose field is fieldName
validateFieldResult(f, fieldValue) ==
  LET fieldResult == validateForm([g \in {f} |-> fieldValue], <<f>>) IN
  [errors |-> MessagesFor(fieldResult.errors, f),
   warnings |-> MessagesFor(fieldResult.warnings, f)]

\* performValidation of validateField(fieldName, fieldValue): the state it
\* leaves in errors, warnings and isValidating
performValidation(f, fieldValue) ==
  /\ errors' = [errors EXCEPT ![f] = validateFieldResult(f, fieldValue).errors]
  /\ warnings' =
       [warnings EXCEPT ![f] = validateFieldResult(f, fieldValue).warnings]
  /\ isValidating' = FALSE

\* the per-field debounce timer of validateField fired
FieldTimerFired(f) ==
  /\ validationTimeouts[f] # NoTimer
  /\ TimerDue(timerOrder, f)
  /\ performValidation(f, validationTimeouts[f])
  /\ validationTimeouts' = [validationTimeouts EXCEPT ![f] = NoTimer]
  /\ timerOrder' = ClearTimer(timerOrder, f)
  /\ UNCHANGED <<values, touched, isValid, hasBeenSubmitted,
                 formTimer, effectPending, submitCall, lastOnSubmit>>

\* handleBlur(fieldName): touched, then validateField(..., true)
handleBlur(f) ==
  LET cleared == ClearFieldTimeout([timeouts |-> validationTimeouts,
                                    order |-> timerOrder], f) IN
  /\ ~effectPending
  /\ touched' = touched \cup {f}
  /\ validationTimeouts' = cleared.timeouts
  /\ timerOrder' = cleared.order
  /\ performValidation(f, values[f])
  /\ effectPending' = TRUE
  /\ UNCHANGED <<values, isValid, hasBeenSubmitted, formTimer, submitCall,
                 lastOnSubmit>>

\* handleFocus(fieldName)
handleFocus(f) ==
  /\ ~effectPending
  /\ ~hasBeenSubmitted
  /\ errors' = WithoutErrors(errors, f)
  /\ UNCHANGED <<values, warnings, touched, isValidating, isValid,
                 hasBeenSubmitted, validationTimeouts, formTimer,
                 effectPending, timerOrder, submitCall, lastOnSubmit>>

\* handleSubmit(onSubmit) up to the await inside validateFormData
handleSubmit ==
  /\ ~effectPending
  /\ hasBeenSubmitted' = TRUE
  /\ touched' = Fields
  /\ isValidating' = TRUE
  /\ formTimer' = [data |-> values, waiter |-> "submit"]
  /\ timerOrder' = SetTimer(timerOrder, "form")
  /\ submitCall' = "awaiting"
  /\ effectPending' = TRUE
  /\ UNCHANGED <<values, errors, warnings, isValid, validationTimeouts,
                 lastOnSubmit>>

\* EffectValidates without the touched fields
EffectValidates_SubmittedOnly(tch, submitted) == submitted

\* the condition of the effect (line 305)
EffectValidates(tch, submitted) == submitted \/ tch # {}

\* the effect on [values, hasBeenSubmitted, touched, validateFormData].  It
\* runs after the render that follows a handler and before the next handler
\* (handlers wait for ~effectPending); a debounce timer that is due may fire
\* before it, debounceDelay being an option of the hook (0 included).
RunEffect ==
  /\ effectPending
  /\ effectPending' = FALSE
  /\ IF EffectValidates(touched, hasBeenSubmitted)
       THEN /\ isValidating' = TRUE
            /\ formTimer' = [data |-> values, waiter |-> "effect"]
            /\ timerOrder' = SetTimer(timerOrder, "form")
       ELSE UNCHANGED <<isValidating, formTimer, timerOrder>>
  /\ UNCHANGED <<values, errors, warnings, touched, isValid,
                 hasBeenSubmitted, validationTimeouts, submitCall,
                 lastOnSubmit>>

\* handleSubmit: onSubmit is invoked for this validation result
SubmitAllowed(validationResult) == validationResult.isValid

\* the timer of createDebouncedValidator fired: the awaiting validateFormData
\* call goes on, and after it the handleSubmit call that made it
\* (onSubmitThrows: the onSubmit callback rejects)
FormTimerFired(onSubmitThrows) ==
  /\ formTimer.waiter # "none"
  /\ TimerDue(timerOrder, "form")
  /\ timerOrder' = ClearTimer(timerOrder, "form")
  /\ LET validationResult == validateForm(formTimer.data, SchemaFields) IN
     /\ warnings' = GroupByField(validationResult.warnings)
     /\ isValid' = validationResult.isValid
     /\ isValidating' = FALSE
     /\ IF formTimer.waiter = "submit"
          THEN IF SubmitAllowed(validationResult)
                 THEN /\ lastOnSubmit' = [values |-> formTimer.data,
                                          isValid |-> validationResult.isValid,
                                          invoked |-> TRUE]
                      /\ submitCall' = "submitted"
                      /\ errors' =
                           IF onSubmitThrows
                             THEN [GroupByField(validationResult.errors)
                                     EXCEPT !["_form"] = <<"SUBMISSION_FAILED">>]
                             ELSE GroupByField(validationResult.errors)
                 ELSE /\ submitCall' = "invalid"
                      /\ ~onSubmitThrows
                      /\ errors' = GroupByField(validationResult.errors)
                      /\ UNCHANGED lastOnSubmit
          ELSE /\ ~onSubmitThrows
               /\ errors' = GroupByField(validationResult.errors)
               /\ UNCHANGED <<submitCall, lastOnSubmit>>
  /\ formTimer' = NoFormTimer
  /\ UNCHANGED <<values, touched, hasBeenSubmitted,
                 validationTimeouts, effectPending>>

\* reset(): the per-field timers are cleared, the debounced validator is not
reset ==
  /\ ~effectPending
  /\ values' = initialValues
  /\ errors' = [k \in Keys |-> <<>>]
  /\ warnings' = [k \in Keys |-> <<>>]
  /\ touched' = {}
  /\ isValid' = FALSE
  /\ hasBeenSubmitted' = FALSE
  /\ isValidating' = FALSE
  /\ validationTimeouts' = [f \in Fields |-> NoTimer]
  /\ timerOrder' = SelectSeq(timerOrder, LAMBDA x : x = "form")
  /\ effectPending' = TRUE
  /\ UNCHANGED <<formTimer, submitCall, lastOnSubmit>>

\* setFieldError(fieldName, error)
setFieldError(f) ==
  /\ ~effectPending
  /\ errors' = [errors EXCEPT ![f] = <<"CUSTOM">>]
  /\ isValid' = FALSE
  /\ UNCHANGED <<values, warnings, touched, isValidating,
                 hasBeenSubmitted, validationTimeouts, formTimer,
                 effectPending, timerOrder, submitCall, lastOnSubmit>>

\* clearFieldError(fieldName)
clearFieldError(f) ==
  /\ ~effectPending
  /\ errors' = [errors EXCEPT ![f] = <<>>]
  /\ UNCHANGED <<values, warnings, touched, isValidating, isValid,
                 hasBeenSubmitted, validationTimeouts, formTimer,
                 effectPending, timerOrder, submitCall, lastOnSubmit>>

\* the record of a handleChange or handleBlur call on field f: for handleBlur
\* whether a timer of the field was pending when it was called, for
\* handleChange whether the field had errors
FieldEvent(name, f) ==
  [name |-> name, field |-> f,
   hadTimer |-> (name = "blur" /\ validationTimeouts[f] # NoTimer),
   hadErrors |-> (name = "change" /\ errors[f] # <<>>)]


\* ------------------------------------------- the validators (validation.js)
\* The validators as functions of measured inputs.  A text argument is a
\* JavaScript value: its kind, for a string its length, whether it is
\* whitespace only, how many of the importantKeywords it contains and whether
\* some word of more than 3 letters makes up over 5% of its words; for a number
\* len holds the number.  Strings carry no outer whitespace unless blank.
VARIABLES
  validatorCalled,      \* the validator applied last
  textInput,            \* its text argument
  fileInput,            \* its file argument
  ruleInput,            \* validateForm: the type of the rule of the one field
  customReturns,        \* validateForm: the custom validator returns a result
  maxSizeInput,         \* validateFile: options.maxSize
  errorInput,           \* isRetryableError: the failure its argument stands for
  retryableOutcome,     \* isRetryableError: what it returned
  payloadInput,         \* transformAnalysisData: backendData
  transformOutcome,     \* transformAnalysisData: what it produced
  onFileSelectCalls,    \* FileUpload: the calls of the onFileSelect prop
  validatorOutcome      \* what the call produced

validatorVars == <<validatorCalled, textInput, fileInput, ruleInput,
                   customReturns, maxSizeInput, errorInput, retryableOutcome,
                   payloadInput, transformOutcome, onFileSelectCalls,
                   validatorOutcome>>

\* TextValidation.JOB_DESCRIPTION_MAX_LENGTH
JOB_DESCRIPTION_MAX_LENGTH == 10000
\* trimmedText.length < 100: the SHORT_CONTENT threshold
SHORT_CONTENT_LENGTH == 100
\* FileValidation.RESUME_MAX_SIZE
RESUME_MAX_SIZE == 10 * 1024 * 1024
\* the file name length limit of validateFile
FILE_NAME_MAX_LENGTH == 255
\* importantKeywords needed to avoid INCOMPLETE_CONTENT
KEYWORDS_NEEDED == 3

\* the value of a property the JavaScript value does not have
Undefined == -1
Lt(a, b) == a # Undefined /\ b # Undefined /\ a < b
Gt(a, b) == a # Undefined /\ b # Undefined /\ a > b

TextLengths ==
  {0, 10, JOB_DESCRIPTION_MIN_LENGTH - 1, JOB_DESCRIPTION_MIN_LENGTH,
   SHORT_CONTENT_LENGTH - 1, SHORT_CONTENT_LENGTH,
   (JOB_DESCRIPTION_MAX_LENGTH * 9) \div 10,
   (JOB_DESCRIPTION_MAX_LENGTH * 9) \div 10 + 1,
   JOB_DESCRIPTION_MAX_LENGTH, JOB_DESCRIPTION_MAX_LENGTH + 1}

TextOf(kind, len) ==
  [kind |-> kind, len |-> len, blank |-> FALSE, keywords |-> 0,
   repetitive |-> FALSE]

\* the strings: a keyword takes at least 5 characters with its separator
StringInputs ==
  {t \in [kind : {"string"}, len : TextLengths, blank : BOOLEAN,
          keywords : 0..KEYWORDS_NEEDED, repetitive : BOOLEAN] :
     /\ t.blank => (t.len > 0 /\ t.keywords = 0 /\ ~t.repetitive)
     /\ t.keywords * 5 <= t.len + 1
     /\ t.repetitive => t.len >= 4}

\* null, undefined, the numbers 0 and 5, and an object
NonStringInputs ==
  {TextOf("null", 0), TextOf("undefined", 0), TextOf("number", 0),
   TextOf("number", 5), TextOf("object", 0)}

TextInputs == StringInputs \cup NonStringInputs

\* JavaScript truthiness of the value, and its length property
Truthy(t) ==
  \/ t.kind = "string" /\ t.len > 0
  \/ t.kind = "number" /\ t.len # 0
  \/ t.kind = "object"
LengthOf(t) == IF t.kind = "string" THEN t.len ELSE Undefined
\* text.trim().length of a string
TrimmedLength(t) == IF t.blank THEN 0 ELSE t.len

\* the ValidationResult a validator returns, or the fact that it threw
\* limitMB is the limit the FILE_TOO_LARGE message names, if there is one
Returned(errs, warns) ==
  [threw |-> FALSE, isValid |-> errs = <<>>, errors |-> errs,
   warnings |-> warns, limitMB |-> Undefined]
Threw ==
  [threw |-> TRUE, isValid |-> FALSE, errors |-> <<>>, warnings |-> <<>>,
   limitMB |-> Undefined]

\* validateRequired on a text value: value === null, undefined or ''
requiredText(t) ==
  IF t.kind \in {"null", "undefined"} \/ (t.kind = "string" /\ t.len = 0)
    THEN Returned(<<"REQUIRED">>, <<>>)
    ELSE Returned(<<>>, <<>>)

\* validateNotWhitespaceOnly(text): text.trim is called on every truthy value
validateNotWhitespaceOnly(t) ==
  IF ~Truthy(t) THEN Returned(<<>>, <<>>)
  ELSE IF t.kind # "string" THEN Threw
  ELSE IF TrimmedLength(t) = 0 THEN Returned(<<"WHITESPACE_ONLY">>, <<>>)
  ELSE Returned(<<>>, <<>>)

\* TooShort that never holds
TooShort_Never(length, minLength) == FALSE

\* validateTextLength: minLength > 0 && length < minLength
TooShort(length, minLength) == minLength > 0 /\ Lt(length, minLength)

\* validateTextLength(text, minLength, maxLength)
validateTextLength(t, minLength, maxLength) ==
  LET length == IF Truthy(t) THEN LengthOf(t) ELSE 0 IN
  Returned(IF TooShort(length, minLength) THEN <<"MIN_LENGTH">>
           ELSE IF Gt(length, maxLength) THEN <<"MAX_LENGTH">>
           ELSE <<>>,
           IF length # Undefined /\ 10 * length > 9 * maxLength
             THEN <<"APPROACHING_LIMIT">>
             ELSE <<>>)

\* validateJobDescription: the warnings added for a text with content
qualityWarnings(t) ==
  IF Truthy(t) /\ TrimmedLength(t) > 0
    THEN (IF TrimmedLength(t) < SHORT_CONTENT_LENGTH
            THEN <<"SHORT_CONTENT">> ELSE <<>>)
         \o (IF t.keywords < KEYWORDS_NEEDED
               THEN <<"INCOMPLETE_CONTENT">> ELSE <<>>)
         \o (IF t.repetitive THEN <<"REPETITIVE_CONTENT">> ELSE <<>>)
    ELSE <<>>

\* validateJobDescription(text)
validateJobDescription(t) ==
  LET requiredResult == requiredText(t)
      whitespaceResult == validateNotWhitespaceOnly(t)
      lengthResult == validateTextLength(t, JOB_DESCRIPTION_MIN_LENGTH,
                                         JOB_DESCRIPTION_MAX_LENGTH)
  IN IF whitespaceResult.threw THEN Threw
     ELSE Returned(requiredResult.errors \o whitespaceResult.errors
                     \o lengthResult.errors,
                   lengthResult.warnings \o qualityWarnings(t))

\* a file argument: null, or an object with a size, possibly a name (its
\* extension, over 255 characters or not, starting with a dot or not, with one
\* of the characters <>:"|?* or not) and a MIME type ("" when absent)
FileSizes == {0, 1, RESUME_MAX_SIZE, RESUME_MAX_SIZE + 1}
FileExtensions == {"pdf", "txt", "exe"}
FileMimeTypes == {"", "application/pdf", "application/zip", "image/png"}
NoFile ==
  [kind |-> "null", hasName |-> FALSE, size |-> 0, ext |-> "pdf", mime |-> "",
   longName |-> FALSE, hidden |-> FALSE, badChars |-> FALSE]
FileInputs ==
  {NoFile} \cup
  {f \in [kind : {"file"}, hasName : BOOLEAN, size : FileSizes,
          ext : FileExtensions, mime : FileMimeTypes, longName : BOOLEAN,
          hidden : BOOLEAN, badChars : BOOLEAN] :
     ~f.hasName => (f.ext = "pdf" /\ ~f.longName /\ ~f.hidden /\ ~f.badChars)}

\* RESUME_ACCEPTED_TYPES; the MIME test of validateFile: one of
\* RESUME_MIME_TYPES, or any type starting with "application/"
AcceptedExtension(ext) == ext \in {"pdf", "doc", "docx"}
AcceptedMimeType(mime) == mime \in {"application/pdf", "application/zip"}

\* the values of options.maxSize: the default and 5MB
MaxSizes == {RESUME_MAX_SIZE, 5 * 1024 * 1024}

\* Math.round(maxSize / (1024 * 1024))
maxSizeMB(maxSize) == (2 * maxSize + 1024 * 1024) \div (2 * 1024 * 1024)

\* ExceedsMaxSize that also holds of a file of exactly maxSize
ExceedsMaxSize_Inclusive(size, maxSize) == size >= maxSize

\* validateFile: file.size > maxSize
ExceedsMaxSize(size, maxSize) == size > maxSize

\* validateFile(file, {maxSize})
validateFileObject(f, maxSize) ==
  IF f.kind = "null" THEN Returned(<<"REQUIRED">>, <<>>)
  ELSE IF ~f.hasName THEN Threw
  ELSE [Returned(
          (IF f.size = 0 THEN <<"FILE_EMPTY">>
           ELSE IF ExceedsMaxSize(f.size, maxSize) THEN <<"FILE_TOO_LARGE">>
           ELSE <<>>)
          \o (IF ~AcceptedExtension(f.ext) THEN <<"INVALID_FILE_TYPE">>
              ELSE <<>>)
          \o (IF f.mime # "" /\ ~AcceptedMimeType(f.mime)
                THEN <<"INVALID_FILE_TYPE">> ELSE <<>>)
          \o (IF f.longName THEN <<"MAX_LENGTH">> ELSE <<>>)
          \o (IF f.hidden \/ f.ext = "exe" \/ f.badChars
                THEN <<"SECURITY_VIOLATION">> ELSE <<>>),
          <<>>)
        EXCEPT !.limitMB =
          IF f.size # 0 /\ ExceedsMaxSize(f.size, maxSize)
            THEN maxSizeMB(maxSize) ELSE Undefined]

\* rule types of a schema (email and url rules are left out); what a custom
\* validator gives back
RuleTypes == {"required", "length", "file", "jobDescription", "custom", "other"}
CustomResults == {"valid", "invalid", "nothing"}
\* TextValidation.NAME_MAX_LENGTH, the maxLength of the 'length' rule
NAME_MAX_LENGTH == 100

\* validateForm(formData, {field: [rule]}): the result for a schema of one
\* field with one rule, the field holding the text t or the file f
validateFormRule(rule, t, f, custom) ==
  LET ruleResult ==
        CASE rule = "required" -> requiredText(t)
          [] rule = "length" -> validateTextLength(t, 0, NAME_MAX_LENGTH)
          [] rule = "file" -> validateFileObject(f, RESUME_MAX_SIZE)
          [] rule = "jobDescription" -> validateJobDescription(t)
          [] rule = "custom" ->
               IF custom = "nothing" THEN Threw
               ELSE IF custom = "invalid" THEN Returned(<<"CUSTOM">>, <<>>)
               ELSE Returned(<<>>, <<>>)
          [] OTHER -> Returned(<<>>, <<>>)
  IN IF ruleResult.threw THEN Threw
     ELSE [Returned(ruleResult.errors, ruleResult.warnings)
             EXCEPT !.limitMB = ruleResult.limitMB]

\* a server payload: null, or an object that may carry compatibility_score
\* and analysis_data, the latter with its own compatibility_score, with
\* missing_skills or gaps, and with recommendations or suggestions; a
\* collection that is there holds one item
PayloadScores == {Undefined, -5, 0, 75, 150}
NestedScores == {Undefined, 75, 150}
NoPayload ==
  [kind |-> "null", score |-> Undefined, nested |-> FALSE,
   nestedScore |-> Undefined, skills |-> "absent", recs |-> "absent"]
Payloads ==
  {NoPayload} \cup
  {b \in [kind : {"object"}, score : PayloadScores, nested : BOOLEAN,
          nestedScore : NestedScores,
          skills : {"absent", "missing_skills", "gaps"},
          recs : {"absent", "recommendations", "suggestions"}] :
     ~b.nested => (b.nestedScore = Undefined /\ b.skills = "absent"
                   /\ b.recs = "absent")}

\* a || b on numbers and absent properties: 0 and undefined are falsy
OrElse(a, b) == IF a # Undefined /\ a # 0 THEN a ELSE b

\* what transformAnalysisData gives back, or the fact that it threw
NoTransform ==
  [threw |-> FALSE, compatibilityScore |-> 0, missingSkills |-> <<>>,
   topRecommendations |-> <<>>]

\* transformAnalysisData(backendData)
transformAnalysisData(b) ==
  IF b.kind = "null"
    THEN [NoTransform EXCEPT !.threw = TRUE]
    ELSE [threw |-> FALSE,
          compatibilityScore |-> OrElse(b.score, OrElse(b.nestedScore, 0)),
          missingSkills |->
            IF b.skills = "absent" THEN <<>> ELSE <<b.skills>>,
          topRecommendations |->
            IF b.recs = "absent" THEN <<>> ELSE <<b.recs>>]

ValidatorInit ==
  /\ validatorCalled = "none"
  /\ textInput = TextOf("undefined", 0)
  /\ fileInput = NoFile
  /\ ruleInput = "none"
  /\ customReturns = "valid"
  /\ maxSizeInput = RESUME_MAX_SIZE
  /\ errorInput = "none"
  /\ retryableOutcome = FALSE
  /\ payloadInput = NoPayload
  /\ transformOutcome = NoTransform
  /\ onFileSelectCalls = <<>>
  /\ validatorOutcome = Returned(<<>>, <<>>)

\* a call of a validator of a text
CallTextValidator(name, t, outcome) ==
  /\ validatorCalled' = name
  /\ textInput' = t
  /\ fileInput' = NoFile
  /\ ruleInput' = "none"
  /\ customReturns' = "valid"
  /\ maxSizeInput' = RESUME_MAX_SIZE
  /\ errorInput' = "none"
  /\ retryableOutcome' = FALSE
  /\ payloadInput' = NoPayload
  /\ transformOutcome' = NoTransform
  /\ onFileSelectCalls' = <<>>
  /\ validatorOutcome' = outcome

CallValidateNotWhitespaceOnly(t) ==
  CallTextValidator("validateNotWhitespaceOnly", t,
                    validateNotWhitespaceOnly(t))

CallValidateTextLength(t) ==
  CallTextValidator("validateTextLength", t,
                    validateTextLength(t, JOB_DESCRIPTION_MIN_LENGTH,
                                       JOB_DESCRIPTION_MAX_LENGTH))

CallValidateJobDescription(t) ==
  CallTextValidator("validateJobDescription", t, validateJobDescription(t))

CallValidateFile(f, maxSize) ==
  /\ validatorCalled' = "validateFile"
  /\ textInput' = TextOf("undefined", 0)
  /\ fileInput' = f
  /\ ruleInput' = "none"
  /\ customReturns' = "valid"
  /\ maxSizeInput' = maxSize
  /\ errorInput' = "none"
  /\ retryableOutcome' = FALSE
  /\ payloadInput' = NoPayload
  /\ transformOutcome' = NoTransform
  /\ onFileSelectCalls' = <<>>
  /\ validatorOutcome' = validateFileObject(f, maxSize)

\* validateForm on a text field
CallValidateFormText(rule, t, custom) ==
  /\ rule # "file"
  /\ rule # "custom" => custom = "valid"
  /\ validatorCalled' = "validateForm"
  /\ textInput' = t
  /\ fileInput' = NoFile
  /\ ruleInput' = rule
  /\ customReturns' = custom
  /\ maxSizeInput' = RESUME_MAX_SIZE
  /\ errorInput' = "none"
  /\ retryableOutcome' = FALSE
  /\ payloadInput' = NoPayload
  /\ transformOutcome' = NoTransform
  /\ onFileSelectCalls' = <<>>
  /\ validatorOutcome' = validateFormRule(rule, t, NoFile, custom)

\* validateForm on a file field with the file rule
CallValidateFormFile(f) ==
  /\ validatorCalled' = "validateForm"
  /\ textInput' = TextOf("undefined", 0)
  /\ fileInput' = f
  /\ ruleInput' = "file"
  /\ customReturns' = "valid"
  /\ maxSizeInput' = RESUME_MAX_SIZE
  /\ errorInput' = "none"
  /\ retryableOutcome' = FALSE
  /\ payloadInput' = NoPayload
  /\ transformOutcome' = NoTransform
  /\ onFileSelectCalls' = <<>>
  /\ validatorOutcome' = validateFormRule("file", TextOf("undefined", 0), f,
                                          "valid")

\* the failures of the classification table: no response, a client timeout,
\* an HTTP status, a cancellation, a failed analysis, an unrecognized shape,
\* and no error at all
ErrorConditions ==
  {"network", "timeout", "http429", "http502", "http503", "http504",
   "http500", "http400", "http422", "cancelled", "analysisFailed", "unknown",
   "none"}

\* error.code of the error the API service raises for a failure: the member of
\* API_ERROR_CODES, "undefined" where the error carries no code
ErrorCodeOf(condition) ==
  CASE condition = "network" -> "NETWORK_ERROR"
    [] condition = "timeout" -> "TIMEOUT"
    [] condition = "http429" -> "RATE_LIMITED"
    [] condition = "http502" -> "BAD_GATEWAY"
    [] condition = "http503" -> "SERVICE_UNAVAILABLE"
    [] condition = "http504" -> "GATEWAY_TIMEOUT"
    [] condition = "http500" -> "SERVER_ERROR"
    [] condition \in {"http400", "http422"} -> "VALIDATION_ERROR"
    [] condition = "analysisFailed" -> "ANALYSIS_FAILED"
    [] OTHER -> "undefined"

\* isRetryableError(error): false for no error, else the test of error.code
CallIsRetryableError(condition) ==
  /\ validatorCalled' = "isRetryableError"
  /\ textInput' = TextOf("undefined", 0)
  /\ fileInput' = NoFile
  /\ ruleInput' = "none"
  /\ customReturns' = "valid"
  /\ maxSizeInput' = RESUME_MAX_SIZE
  /\ errorInput' = condition
  /\ retryableOutcome' =
       (condition # "none" /\ isRetryableError(ErrorCodeOf(condition)))
  /\ payloadInput' = NoPayload
  /\ transformOutcome' = NoTransform
  /\ onFileSelectCalls' = <<>>
  /\ validatorOutcome' = Returned(<<>>, <<>>)

CallTransformAnalysisData(b) ==
  /\ validatorCalled' = "transformAnalysisData"
  /\ textInput' = TextOf("undefined", 0)
  /\ fileInput' = NoFile
  /\ ruleInput' = "none"
  /\ customReturns' = "valid"
  /\ maxSizeInput' = RESUME_MAX_SIZE
  /\ errorInput' = "none"
  /\ retryableOutcome' = FALSE
  /\ payloadInput' = b
  /\ transformOutcome' = transformAnalysisData(b)
  /\ onFileSelectCalls' = <<>>
  /\ validatorOutcome' = Returned(<<>>, <<>>)

\* FileUpload.validateFile: maxSize, and the files the input or a drop hands
\* to handleFileSelect (files[0] of a list that is not empty)
UPLOAD_MAX_SIZE == 10 * 1024 * 1024
UploadFiles ==
  {f \in FileInputs :
     /\ f.kind = "file" /\ f.hasName /\ f.ext = "pdf"
     /\ ~f.longName /\ ~f.hidden /\ ~f.badChars}

\* FileUpload.validateFile with the size test first
UploadValidateFile_SizeFirst(f) ==
  IF f.size > UPLOAD_MAX_SIZE THEN "File size must be less than 10MB."
  ELSE IF f.mime # "application/pdf" THEN "Please upload a PDF file only."
  ELSE "null"

\* FileUpload.validateFile(file): the message, or null
UploadValidateFile(f) ==
  IF f.mime # "application/pdf" THEN "Please upload a PDF file only."
  ELSE IF f.size > UPLOAD_MAX_SIZE THEN "File size must be less than 10MB."
  ELSE "null"

\* FileUpload.handleFileSelect(file)
CallUploadHandleFileSelect(f) ==
  /\ validatorCalled' = "FileUpload.handleFileSelect"
  /\ textInput' = TextOf("undefined", 0)
  /\ fileInput' = f
  /\ ruleInput' = "none"
  /\ customReturns' = "valid"
  /\ maxSizeInput' = RESUME_MAX_SIZE
  /\ errorInput' = "none"
  /\ retryableOutcome' = FALSE
  /\ payloadInput' = NoPayload
  /\ transformOutcome' = NoTransform
  /\ onFileSelectCalls' =
       LET validationError == UploadValidateFile(f) IN
       IF validationError # "null"
         THEN <<[file |-> "null", error |-> validationError]>>
         ELSE <<[file |-> "file", error |-> "null"]>>
  /\ validatorOutcome' = Returned(<<>>, <<>>)

\* ------------------------------------------------------ useApi (useApi.js)
\* One useApi() instance.  Calls of execute are numbered in the order they are
\* made; the result of apiCall number c is c, its error is c as well.
VARIABLES
  loading,              \* useState(false)
  apiError,             \* useState(null): the call whose error is stored
  data,                 \* useState(null): the call whose result is stored
  abortControllerRef,   \* the execute call that made the current controller
  aborted,              \* the execute calls whose controller was aborted
  apiCall,              \* per execute call: the position of its apiCall()
  executed              \* the number of execute calls made

apiVars == <<loading, apiError, data, abortControllerRef, aborted, apiCall,
             executed>>

\* the execute calls of one run
MaxCalls == 3
Calls == 1..MaxCalls
\* null, as the value of error, data and abortControllerRef.current
Null == 0
\* err.name of a rejection of apiCall()
ErrorNames == {"ApiError", "AbortError"}

ApiInit ==
  /\ loading = FALSE
  /\ apiError = Null
  /\ data = Null
  /\ abortControllerRef = Null
  /\ aborted = {}
  /\ apiCall = [c \in Calls |-> "unused"]
  /\ executed = 0

\* abortControllerRef.current.abort() if there is a controller
AbortCurrent(ref, set) == IF ref # Null THEN set \cup {ref} ELSE set

\* execute(apiCall, {resetOnStart}) up to the await of apiCall(); the signal
\* of the new controller is handed to nobody
execute(resetOnStart) ==
  /\ executed < MaxCalls
  /\ executed' = executed + 1
  /\ aborted' = AbortCurrent(abortControllerRef, aborted)
  /\ abortControllerRef' = executed + 1
  /\ IF resetOnStart
       THEN apiError' = Null /\ data' = Null
       ELSE UNCHANGED <<apiError, data>>
  /\ loading' = TRUE
  /\ apiCall' = [apiCall EXCEPT ![executed + 1] = "outstanding"]

\* execute after the await: apiCall() of call c resolved
ExecuteResolved(c) ==
  /\ apiCall[c] = "outstanding"
  /\ apiCall' = [apiCall EXCEPT ![c] = "resolved"]
  /\ data' = c
  /\ loading' = FALSE
  /\ UNCHANGED <<apiError, abortControllerRef, aborted, executed>>

\* execute: the catch and finally blocks, apiCall() of call c rejected
ExecuteRejected(c, name) ==
  /\ apiCall[c] = "outstanding"
  /\ apiCall' = [apiCall EXCEPT ![c] = "rejected"]
  /\ apiError' = IF name # "AbortError" THEN c ELSE apiError
  /\ loading' = FALSE
  /\ UNCHANGED <<data, abortControllerRef, aborted, executed>>

\* reset() of useApi
apiReset ==
  /\ loading' = FALSE
  /\ apiError' = Null
  /\ data' = Null
  /\ aborted' = AbortCurrent(abortControllerRef, aborted)
  /\ UNCHANGED <<abortControllerRef, apiCall, executed>>

Init == HookInit /\ AppInit /\ FormInit /\ ValidatorInit /\ ApiInit

\* the handlers of useAnalysis, its interval ticks and the continuations of
\* its requests, for the startAnalysis calls J; a call is followed for at most
\* maxTicks ticks
HookActions(J, maxTicks) ==
  \/ \E j \in J : StartAnalysis(j) /\ UNCHANGED <<appVars, formVars, lastFieldEvent, validatorVars, apiVars>>
  \/ \E j \in J : issued[j] < maxTicks /\ PollTick(j)
       /\ UNCHANGED <<appVars, formVars, lastFieldEvent, validatorVars, apiVars>>
  \/ \E j \in J : StartResolved(j) /\ UNCHANGED <<appVars, formVars, lastFieldEvent, validatorVars, apiVars>>
  \/ \E j \in J, code \in TransportErrorCodes : StartRejected(j, code)
       /\ UNCHANGED <<appVars, formVars, lastFieldEvent, validatorVars, apiVars>>
  \/ \E j \in J, status \in ProgressStatuses, pct \in ProgressValues :
       ProgressResolved(j, status, pct) /\ UNCHANGED <<appVars, formVars, lastFieldEvent, validatorVars, apiVars>>
  \/ \E j \in J, code \in TransportErrorCodes : ProgressRejected(j, code)
       /\ UNCHANGED <<appVars, formVars, lastFieldEvent, validatorVars, apiVars>>
  \/ \E j \in J : ResultResolved(j) /\ UNCHANGED <<appVars, formVars, lastFieldEvent, validatorVars, apiVars>>
  \/ \E j \in J, code \in TransportErrorCodes : ResultRejected(j, code)
       /\ UNCHANGED <<appVars, formVars, lastFieldEvent, validatorVars, apiVars>>
  \/ cancelAnalysis /\ UNCHANGED <<appVars, formVars, lastFieldEvent, validatorVars, apiVars>>
  \/ resetAnalysis /\ UNCHANGED <<appVars, formVars, lastFieldEvent, validatorVars, apiVars>>

NextHook == HookActions(Jobs, MaxPolls)

vars == <<hookVars, appVars, formVars, lastFieldEvent, validatorVars,
          apiVars>>

\* the App handlers and the continuations of their requests;
\* with alone: only while the form hook is as constructed
AppActions(alone) ==
  \/ (alone => FormInit)
       /\ handleFileSelectError /\ UNCHANGED <<hookVars, formVars, lastFieldEvent, validatorVars, apiVars>>
  \/ (alone => FormInit)
       /\ handleFileSelect /\ UNCHANGED <<hookVars, formVars, lastFieldEvent, validatorVars, apiVars>>
  \/ (alone => FormInit) /\ UploadResolved /\ UNCHANGED <<hookVars, formVars, lastFieldEvent, validatorVars, apiVars>>
  \/ (alone => FormInit) /\ \E status \in {0, 500} : UploadRejected(status)
       /\ UNCHANGED <<hookVars, formVars, lastFieldEvent, validatorVars, apiVars>>
  \/ (alone => FormInit)
       /\ \E len \in JobDescriptionLengths : handleJobDescriptionChange(len)
       /\ UNCHANGED <<hookVars, formVars, lastFieldEvent, validatorVars, apiVars>>
  \/ (alone => FormInit) /\ handleAnalyze /\ UNCHANGED <<hookVars, formVars, lastFieldEvent, validatorVars, apiVars>>
  \/ (alone => FormInit)
       /\ AnalyzeStartResolved /\ UNCHANGED <<hookVars, formVars, lastFieldEvent, validatorVars, apiVars>>
  \/ (alone => FormInit)
       /\ \E status \in ApiErrorStatuses : AnalyzeStartRejected(status)
       /\ UNCHANGED <<hookVars, formVars, lastFieldEvent, validatorVars, apiVars>>
  \/ (alone => FormInit)
       /\ \E payload \in StatusPayloads : StatusResolved(payload)
       /\ UNCHANGED <<hookVars, formVars, lastFieldEvent, validatorVars, apiVars>>
  \/ (alone => FormInit)
       /\ \E status \in ApiErrorStatuses : StatusRejected(status)
       /\ UNCHANGED <<hookVars, formVars, lastFieldEvent, validatorVars, apiVars>>
  \/ (alone => FormInit) /\ WaitElapsed /\ UNCHANGED <<hookVars, formVars, lastFieldEvent, validatorVars, apiVars>>
  \/ (alone => FormInit)
       /\ handleStartOver /\ UNCHANGED <<hookVars, formVars, lastFieldEvent, validatorVars, apiVars>>

NextApp == AppActions(FALSE)

\* the handlers, timers and effect of useFormValidation;
\* with alone: only while the App is as constructed;
\* with track: lastFieldEvent follows the handler calls
FormActions(alone, track) ==
  \/ (alone => AppInit)
       /\ \E f \in Fields : \E raw \in RawFieldValues(f) :
            /\ handleChange(f, raw)
            /\ lastFieldEvent' =
                 IF track THEN FieldEvent("change", f) ELSE lastFieldEvent
       /\ UNCHANGED <<hookVars, appVars, validatorVars, apiVars>>
  \/ (alone => AppInit) /\ \E f \in Fields : FieldTimerFired(f)
       /\ UNCHANGED <<hookVars, appVars, lastFieldEvent, validatorVars, apiVars>>
  \/ (alone => AppInit)
       /\ \E f \in Fields :
            /\ handleBlur(f)
            /\ lastFieldEvent' =
                 IF track THEN FieldEvent("blur", f) ELSE lastFieldEvent
       /\ UNCHANGED <<hookVars, appVars, validatorVars, apiVars>>
  \/ (alone => AppInit)
       /\ \E f \in Fields : handleFocus(f)
       /\ lastFieldEvent' = NoFieldEvent
       /\ UNCHANGED <<hookVars, appVars, validatorVars, apiVars>>
  \/ (alone => AppInit) /\ handleSubmit
       /\ lastFieldEvent' = NoFieldEvent
       /\ UNCHANGED <<hookVars, appVars, validatorVars, apiVars>>
  \/ (alone => AppInit) /\ RunEffect
       /\ UNCHANGED <<hookVars, appVars, lastFieldEvent, validatorVars, apiVars>>
  \/ (alone => AppInit)
       /\ \E onSubmitThrows \in BOOLEAN : FormTimerFired(onSubmitThrows)
       /\ UNCHANGED <<hookVars, appVars, lastFieldEvent, validatorVars, apiVars>>
  \/ (alone => AppInit) /\ reset
       /\ lastFieldEvent' = (IF track THEN ResetEvent ELSE NoFieldEvent)
       /\ UNCHANGED <<hookVars, appVars, validatorVars, apiVars>>
  \/ (alone => AppInit) /\ \E f \in Fields : setFieldError(f)
       /\ lastFieldEvent' = NoFieldEvent
       /\ UNCHANGED <<hookVars, appVars, validatorVars, apiVars>>
  \/ (alone => AppInit) /\ \E f \in Fields : clearFieldError(f)
       /\ lastFieldEvent' = NoFieldEvent
       /\ UNCHANGED <<hookVars, appVars, validatorVars, apiVars>>

NextForm == FormActions(FALSE, FALSE)

\* useFormValidation with the record of the latest handleChange / handleBlur
NextFormEvents == FormActions(FALSE, TRUE)

SpecHook == Init /\ [][NextHook]_vars

SpecApp == Init /\ [][NextApp]_vars

SpecForm == Init /\ [][NextForm]_vars

SpecFormEvents == Init /\ [][NextFormEvents]_vars

\* the validators applied to every input
NextValidators ==
  \/ \E t \in TextInputs : CallValidateNotWhitespaceOnly(t)
       /\ UNCHANGED <<hookVars, appVars, formVars, lastFieldEvent, apiVars>>
  \/ \E t \in TextInputs : CallValidateTextLength(t)
       /\ UNCHANGED <<hookVars, appVars, formVars, lastFieldEvent, apiVars>>
  \/ \E t \in TextInputs : CallValidateJobDescription(t)
       /\ UNCHANGED <<hookVars, appVars, formVars, lastFieldEvent, apiVars>>
  \/ \E f \in FileInputs, maxSize \in MaxSizes : CallValidateFile(f, maxSize)
       /\ UNCHANGED <<hookVars, appVars, formVars, lastFieldEvent, apiVars>>
  \/ \E rule \in RuleTypes, t \in TextInputs, custom \in CustomResults :
       CallValidateFormText(rule, t, custom)
       /\ UNCHANGED <<hookVars, appVars, formVars, lastFieldEvent, apiVars>>
  \/ \E f \in FileInputs : CallValidateFormFile(f)
       /\ UNCHANGED <<hookVars, appVars, formVars, lastFieldEvent, apiVars>>
  \/ \E condition \in ErrorConditions : CallIsRetryableError(condition)
       /\ UNCHANGED <<hookVars, appVars, formVars, lastFieldEvent, apiVars>>
  \/ \E b \in Payloads : CallTransformAnalysisData(b)
       /\ UNCHANGED <<hookVars, appVars, formVars, lastFieldEvent, apiVars>>
  \/ \E f \in UploadFiles : CallUploadHandleFileSelect(f)
       /\ UNCHANGED <<hookVars, appVars, formVars, lastFieldEvent, apiVars>>

SpecValidators == Init /\ [][NextValidators]_vars

\* a step of the pollAnalysis loop: the pending getAnalysis request settles,
\* or the interval timer fires
PollStep ==
  /\ \/ \E payload \in StatusPayloads : StatusResolved(payload)
     \/ \E status \in ApiErrorStatuses : StatusRejected(status)
     \/ WaitElapsed
  /\ UNCHANGED <<hookVars, formVars, lastFieldEvent, validatorVars, apiVars>>

\* App where every status request settles and every timer fires
SpecAppFair == SpecApp /\ WF_vars(PollStep)

\* useApi alone
NextApi ==
  \/ \E resetOnStart \in BOOLEAN : execute(resetOnStart)
       /\ UNCHANGED <<hookVars, appVars, formVars, lastFieldEvent,
                      validatorVars>>
  \/ \E c \in Calls : ExecuteResolved(c)
       /\ UNCHANGED <<hookVars, appVars, formVars, lastFieldEvent,
                      validatorVars>>
  \/ \E c \in Calls, name \in ErrorNames : ExecuteRejected(c, name)
       /\ UNCHANGED <<hookVars, appVars, formVars, lastFieldEvent,
                      validatorVars>>
  \/ apiReset
       /\ UNCHANGED <<hookVars, appVars, formVars, lastFieldEvent,
                      validatorVars>>

SpecApi == Init /\ [][NextApi]_vars

\* App and useFormValidation are separate components that share no state: a
\* run drives one of them while the other stays as constructed
NextSubmit ==
  \/ AppActions(TRUE)
  \/ FormActions(TRUE, FALSE)

SpecSubmit == Init /\ [][NextSubmit]_vars

\* the useAnalysis hook with a single job, followed past maxAttempts ticks
NextHookSingle == HookActions({1}, maxAttempts + 1)

SpecHookSingle == Init /\ [][NextHookSingle]_vars

\* ------------------------------------------------------------------ claims

\* C1: once cancelAnalysis has run with result and error unset, no answer to
\* a status or result request that arrives while the job stays cancelled sets
\* result or error.
C1_LateResponseDiscarded ==
  [][(/\ cancelled /\ cancelled' /\ result = "null" /\ error = "null"
      /\ \E j \in Jobs : \/ progressInFlight'[j] < progressInFlight[j]
                          \/ resultInFlight'[j] < resultInFlight[j])
       => (result' = "null" /\ error' = "null")]_vars

\* C2: while the job is cancelled no progress or currentStep update is applied
\* and analyzing stays false.
C2_NoProgressAfterCancel ==
  [][(cancelled /\ cancelled')
       => (progress' = progress /\ currentStep' = currentStep /\ ~analyzing')]_vars

\* C3: at most one request (status or final result) of a job is outstanding.
C3_OneOutstandingRequest ==
  \A j \in Jobs : progressInFlight[j] + resultInFlight[j] <= 1

\* C4: no request beyond the maxAttempts-th is sent, and once maxAttempts
\* non-terminal answers are in, polling has stopped with a timeout error.
C4_PollingCapped ==
  \A j \in Jobs :
    /\ issued[j] <= maxAttempts
    /\ (onlyNonTerminal /\ ~cancelled /\ issued[j] = maxAttempts
          /\ progressInFlight[j] = 0)
         => (~intervalActive[j] /\ error = "TIMEOUT")

\* C5: an answer with status 'failed' sends the flow back to the input step
\* with an error and is not shown as a result.
C5_FailedStatusFails ==
  [][(analyzeCall = "awaitStatus" /\ lastStatus' = "failed")
       => (appCurrentStep' = "input" /\ appError' # "null"
           /\ analysisResults' = analysisResults)]_vars

\* C6 (as claimed): up to 3 consecutive 404 answers are tolerated, the 4th
\* fails the job.
C6_FourthConsecutive404Fails ==
  [][(consecutive404' = consecutive404 + 1)
       => IF consecutive404' <= 3
            THEN analyzeCall' = "waiting"
            ELSE analyzeCall' = "idle" /\ appError' = ApiErrorMessage(404)]_vars

\* C6 (amended): a 404 answer is tolerated on every attempt but the last,
\* however many came in a row; a 404 answer to the last attempt fails the job
\* with that error.
C6_404ToleratedUntilLastAttempt ==
  [][(consecutive404' = consecutive404 + 1)
       => IF attempt < maxAttempts - 1
            THEN analyzeCall' = "waiting" /\ appError' = appError
                 /\ appCurrentStep' = appCurrentStep
            ELSE analyzeCall' = "idle" /\ appError' = ApiErrorMessage(404)
                 /\ appCurrentStep' = "input"]_vars

\* C6 witness: a fourth consecutive 404 was swallowed and polling goes on
C6_Witness == consecutive404 >= 4 /\ analyzeCall = "waiting"

\* C7: once a newer startAnalysis call was made, the interval of every older
\* call is stopped.
C7_OldLoopCancelled ==
  \A j, k \in Jobs :
    (j < k /\ startCall[k] # "idle") => ~intervalActive[j]

\* C8: result and error are never both set.
C8_ResultXorError == ~(result # "null" /\ error # "null")

\* C9: a startAnalysis call ends with a retryable error only after the
\* submission was retried twice (three requests).
C9_SubmitRetried ==
  \A j \in Jobs : isRetryableError(startCall[j]) => submits[j] = 3

\* C10: handleAnalyze sends a start request only with a resume and a job
\* description of at least 50 characters, and a rejected handleAnalyze leaves
\* the step and the running call alone and sets the error; onSubmit of
\* handleSubmit is only ever invoked with a valid validation result of the
\* values it is given, and a handleSubmit whose validation is invalid invokes
\* no onSubmit and leaves isValid false with an error listed.
C10_NoSubmitWhenInvalid ==
  [][/\ (analyzeCall = "idle" /\ analyzeCall' = "awaitStart")
          => (resumeData # "null" /\ jobDescription >= JOB_DESCRIPTION_MIN_LENGTH)
     /\ (appError' = ValidationMessage /\ appError # ValidationMessage)
          => (/\ resumeData = "null" \/ jobDescription < JOB_DESCRIPTION_MIN_LENGTH
              /\ analyzeCall' = analyzeCall
              /\ startRequests' = startRequests
              /\ appCurrentStep' = appCurrentStep)
     /\ lastOnSubmit'.invoked
          => (/\ lastOnSubmit'.isValid
              /\ validateForm(lastOnSubmit'.values, SchemaFields).isValid)
     /\ (submitCall = "awaiting" /\ submitCall' = "invalid")
          => (/\ lastOnSubmit' = lastOnSubmit
              /\ ~isValid'
              /\ \E k \in Keys : errors'[k] # <<>>)]_vars

\* C10 witness: handleAnalyze was refused for a too short description after
\* an upload; no call is running and the flow is still at the input step
C10_Witness ==
  /\ appError = ValidationMessage
  /\ resumeData # "null"
  /\ jobDescription < JOB_DESCRIPTION_MIN_LENGTH
  /\ analyzeCall = "idle"
  /\ appCurrentStep = "input"

\* handleSubmit finished with an invalid result without any onSubmit call
C10_FormRefused ==
  /\ submitCall = "invalid"
  /\ ~lastOnSubmit.invoked
  /\ ~isValid

\* C11: handleSubmit validates every schema field in the handleSubmit step
\* itself, without the debounce delay (isValid, errors and warnings are those
\* of validateForm on the current values when the step ends), and onSubmit is
\* invoked only with a valid result of the current values.
C11_SubmitValidatesImmediately ==
  [][/\ (~effectPending /\ formTimer'.waiter = "submit")
          => LET validationResult == validateForm(values, SchemaFields) IN
             /\ isValid' = validationResult.isValid
             /\ errors' = GroupByField(validationResult.errors)
             /\ warnings' = GroupByField(validationResult.warnings)
     /\ (submitCall = "awaiting" /\ submitCall' = "submitted")
          => (/\ lastOnSubmit'.values = values
              /\ validateForm(values, SchemaFields).isValid)]_vars

\* every timer has fired and the effect has run: nothing is left to happen
\* until the next handler call
Quiescent == ~effectPending /\ timerOrder = <<>>

\* the latest handler call was handleChange on field f
LastEdited(f) == lastFieldEvent.name = "change" /\ lastFieldEvent.field = f

\* the field shows what validateField(f, values[f], true) stores
ShowsImmediateResult(f) ==
  /\ errors[f] = validateFieldResult(f, values[f]).errors
  /\ warnings[f] = validateFieldResult(f, values[f]).warnings

\* C12 (as claimed): once the timers that followed the last edit of a field
\* have elapsed, the field's errors and warnings are those of the immediate
\* validation of its final value, touched or not.
C12_DebounceConverges ==
  \A f \in Fields : (LastEdited(f) /\ Quiescent) => ShowsImmediateResult(f)

\* C12 (amended): the same, provided some field is touched or the form has
\* been submitted.
C12_DebounceConvergesOnceTouched ==
  \A f \in Fields :
    (LastEdited(f) /\ Quiescent /\ (touched # {} \/ hasBeenSubmitted))
      => ShowsImmediateResult(f)

\* C12 witness: after the last edit of a touched form everything has elapsed
\* and the edited field shows the error of its final value
C12_Witness ==
  \E f \in Fields :
    /\ LastEdited(f) /\ Quiescent /\ touched # {}
    /\ errors[f] # <<>>
    /\ ShowsImmediateResult(f)

\* C13: handleBlur on a field stores the immediate validation of the field's
\* value in the same step, and from the blur until the next handler call no
\* timer of the field is pending.
C13_BlurValidatesAndCancels ==
  [][\A f \in Fields :
       (lastFieldEvent'.name = "blur" /\ lastFieldEvent'.field = f)
         => /\ validationTimeouts'[f] = NoTimer
            /\ \A i \in DOMAIN timerOrder' : timerOrder'[i] # f
            /\ (~effectPending /\ effectPending')
                 => (/\ errors'[f] = validateFieldResult(f, values[f]).errors
                     /\ warnings'[f] =
                          validateFieldResult(f, values[f]).warnings)]_vars

\* C13 witness: the latest handler call is a handleBlur that found a timer of
\* its field pending; the field shows the error of its value
C13_Witness ==
  /\ lastFieldEvent.name = "blur"
  /\ lastFieldEvent.hadTimer
  /\ effectPending
  /\ errors[lastFieldEvent.field] # <<>>

\* C14: a handleChange step on a field leaves that field's error list empty
\* and the error list of every other key as it was.
C14_ChangeClearsOwnErrors ==
  [][\A f \in Fields :
       (~effectPending /\ effectPending'
          /\ lastFieldEvent'.name = "change" /\ lastFieldEvent'.field = f)
         => /\ errors'[f] = <<>>
            /\ \A k \in Keys \ {f} : errors'[k] = errors[k]
            /\ warnings' = warnings]_vars

\* C14 witness: the latest step is a handleChange on a field that had errors;
\* they are gone and another key still has its errors
C14_Witness ==
  /\ lastFieldEvent.name = "change"
  /\ lastFieldEvent.hadErrors
  /\ effectPending
  /\ errors[lastFieldEvent.field] = <<>>
  /\ \E k \in Keys \ {lastFieldEvent.field} : errors[k] # <<>>

\* C15: isValid is true exactly when no key of errors has a non-empty list.
C15_IsValidIffNoErrors ==
  isValid <=> (\A k \in Keys : errors[k] = <<>>)

\* isValid is true only when no key of errors has a non-empty list
C15_ValidImpliesNoErrors ==
  isValid => (\A k \in Keys : errors[k] = <<>>)

\* C16: onSubmit is invoked only in a step that starts with no per-field
\* validation timer pending.
C16_NoSubmitWhilePending ==
  [][(submitCall = "awaiting" /\ submitCall' = "submitted")
       => (/\ lastOnSubmit'.invoked
           /\ \A f \in Fields : validationTimeouts[f] = NoTimer
           /\ \A f \in Fields : validationTimeouts'[f] = NoTimer)]_vars

\* C16 witness: onSubmit was invoked after a submission made with every field
\* touched, and no per-field timer is pending
C16_Witness ==
  /\ submitCall = "submitted"
  /\ lastOnSubmit.invoked
  /\ hasBeenSubmitted
  /\ \A f \in Fields : validationTimeouts[f] = NoTimer

\* C17: a failure in a tick callback of a call (a rejected request or a
\* 'failed' status) sets the error and stops analyzing in that step, and from
\* then on the interval of that call is stopped, so that it sends no further
\* status request.
C17_PollFailureEndsPolling ==
  [][\A j \in Jobs :
       pollFailed'[j]
         => /\ ~intervalActive'[j]
            /\ ~pollFailed[j] => (error' # "null" /\ ~analyzing')]_vars

\* C18: a progress update applied by a tick callback keeps progress within
\* 0..100 and does not decrease it.
C18_ProgressMonotonic ==
  [][(\E j \in Jobs : progressInFlight'[j] < progressInFlight[j]
                       /\ progress' # progress)
       => (progress' \in 0..100 /\ progress' >= progress)]_vars

Has(list, x) == \E i \in DOMAIN list : list[i] = x

\* the input of the latest validator call is malformed: a truthy text that is
\* no string, a file object without a name, a custom rule returning nothing
MalformedInput ==
  \/ /\ validatorCalled \in {"validateNotWhitespaceOnly", "validateTextLength",
                             "validateJobDescription"}
     /\ Truthy(textInput) /\ textInput.kind # "string"
  \/ /\ validatorCalled = "validateFile"
     /\ fileInput.kind = "file" /\ ~fileInput.hasName
  \/ /\ validatorCalled = "validateForm"
     /\ \/ ruleInput = "custom" /\ customReturns = "nothing"
        \/ ruleInput = "file" /\ fileInput.kind = "file" /\ ~fileInput.hasName
        \/ ruleInput \in {"required", "length", "jobDescription"}
             /\ Truthy(textInput) /\ textInput.kind # "string"

\* C19: no validator call throws, and a call on a malformed input returns a
\* result that is not valid.
C19_ValidatorsNeverThrow ==
  validatorCalled # "none"
    => /\ ~validatorOutcome.threw
       /\ MalformedInput => ~validatorOutcome.isValid

\* C20: for a text (a string, null or undefined) validateJobDescription
\* returns isValid exactly when the text is non-empty, not whitespace only and
\* of a length within [50, 10000]; a text under 50 characters gets a
\* MIN_LENGTH error; SHORT_CONTENT, INCOMPLETE_CONTENT and REPETITIVE_CONTENT
\* are never among the errors, and a text with content and fewer than 3
\* keywords gets the INCOMPLETE_CONTENT warning.
C20_JobDescriptionValidity ==
  (validatorCalled = "validateJobDescription"
     /\ textInput.kind \in {"string", "null", "undefined"})
    => LET length == IF textInput.kind = "string" THEN textInput.len ELSE 0 IN
       /\ ~validatorOutcome.threw
       /\ validatorOutcome.isValid
            <=> (/\ length > 0
                 /\ ~textInput.blank
                 /\ length >= JOB_DESCRIPTION_MIN_LENGTH
                 /\ length <= JOB_DESCRIPTION_MAX_LENGTH)
       /\ length < JOB_DESCRIPTION_MIN_LENGTH
            => Has(validatorOutcome.errors, "MIN_LENGTH")
       /\ \A w \in {"SHORT_CONTENT", "INCOMPLETE_CONTENT",
                    "REPETITIVE_CONTENT"} : ~Has(validatorOutcome.errors, w)
       /\ (length > 0 /\ ~textInput.blank
             /\ textInput.keywords < KEYWORDS_NEEDED)
            => Has(validatorOutcome.warnings, "INCOMPLETE_CONTENT")

\* C20 witness: a description of 100 characters without any of the keywords
\* is valid and carries the INCOMPLETE_CONTENT warning
C20_Witness ==
  /\ validatorCalled = "validateJobDescription"
  /\ textInput.kind = "string"
  /\ textInput.len >= SHORT_CONTENT_LENGTH
  /\ textInput.keywords = 0
  /\ validatorOutcome.isValid
  /\ Has(validatorOutcome.warnings, "INCOMPLETE_CONTENT")

\* a file object as the browser hands it over: it has a name
WellFormedFile(f) == f.kind = "file" /\ f.hasName

\* C21: validateFile of a file reports FILE_TOO_LARGE if and only if the size
\* of the file exceeds options.maxSize, and the message then names maxSize in
\* MB (10 for the default); a file with 0 < size <= maxSize, the extension
\* pdf, the MIME type application/pdf and a benign name is valid, no errors.
C21_FileTooLargeIffOverLimit ==
  (validatorCalled = "validateFile" /\ WellFormedFile(fileInput)) =>
    /\ ~validatorOutcome.threw
    /\ Has(validatorOutcome.errors, "FILE_TOO_LARGE")
         <=> fileInput.size > maxSizeInput
    /\ Has(validatorOutcome.errors, "FILE_TOO_LARGE") =>
         /\ validatorOutcome.limitMB * 1024 * 1024 = maxSizeInput
         /\ maxSizeInput = RESUME_MAX_SIZE => validatorOutcome.limitMB = 10
    /\ ( /\ 0 < fileInput.size
         /\ fileInput.size <= maxSizeInput
         /\ fileInput.ext = "pdf"
         /\ fileInput.mime = "application/pdf"
         /\ ~fileInput.longName /\ ~fileInput.hidden /\ ~fileInput.badChars )
       => (validatorOutcome.isValid /\ validatorOutcome.errors = <<>>)

\* a named pdf of one byte over the default limit was refused
C21_Witness ==
  /\ validatorCalled = "validateFile"
  /\ WellFormedFile(fileInput)
  /\ maxSizeInput = RESUME_MAX_SIZE
  /\ fileInput.size = RESUME_MAX_SIZE + 1
  /\ fileInput.ext = "pdf"
  /\ validatorOutcome.errors = <<"FILE_TOO_LARGE">>
  /\ validatorOutcome.limitMB = 10


\* C22: isRetryableError follows the classification table: it returns true
\* exactly for a network failure, a client timeout and HTTP 429, 502, 503, 504
\* and 500, and false for HTTP 400 and 422, a cancellation, a failed analysis,
\* an unrecognized error and no error.
C22_RetryabilityTable ==
  validatorCalled = "isRetryableError" =>
    (retryableOutcome <=>
       errorInput \in {"network", "timeout", "http429", "http502", "http503",
                       "http504", "http500"})


\* C23: for every server payload transformAnalysisData returns without
\* throwing, its compatibilityScore lies within 0..100, and missingSkills and
\* topRecommendations are empty sequences where the payload has none.
C23_TransformTotalAndClamped ==
  validatorCalled = "transformAnalysisData" =>
    /\ ~transformOutcome.threw
    /\ transformOutcome.compatibilityScore >= 0
    /\ transformOutcome.compatibilityScore <= 100
    /\ payloadInput.skills = "absent" => transformOutcome.missingSkills = <<>>
    /\ payloadInput.recs = "absent" =>
         transformOutcome.topRecommendations = <<>>


\* C24: FileUpload.handleFileSelect calls onFileSelect exactly once per file:
\* with (file, null) if and only if the MIME type is application/pdf and the
\* size is at most 10MB, otherwise with (null, message), the PDF-only message
\* for every file that is not a PDF whatever its size, else the size message.
C24_UploadReportsOneOutcome ==
  validatorCalled = "FileUpload.handleFileSelect" =>
    /\ Len(onFileSelectCalls) = 1
    /\ LET call == onFileSelectCalls[1]
           isPdf == fileInput.mime = "application/pdf"
           fits == fileInput.size <= 10 * 1024 * 1024
       IN /\ call = [file |-> "file", error |-> "null"] <=> (isPdf /\ fits)
          /\ ~isPdf =>
               call = [file |-> "null",
                       error |-> "Please upload a PDF file only."]
          /\ (isPdf /\ ~fits) =>
               call = [file |-> "null",
                       error |-> "File size must be less than 10MB."]

\* a file that is neither a PDF nor within 10MB got the PDF-only message
C24_Witness ==
  /\ validatorCalled = "FileUpload.handleFileSelect"
  /\ fileInput.mime = "image/png"
  /\ fileInput.size > UPLOAD_MAX_SIZE
  /\ onFileSelectCalls =
       <<[file |-> "null", error |-> "Please upload a PDF file only."]>>


\* C25: a handleSubmit call always completes once the timers have fired: while
\* the call awaits its form-level validation, the pending timer of the
\* debounced validator is the one that resolves that validation, no later
\* validateFormData call having replaced it.
C25_SubmitNeverOrphaned ==
  submitCall = "awaiting" => formTimer.waiter = "submit"


\* C27: after reset() and until the next handler call, errors, warnings and
\* isValid keep their reset values: no validation scheduled before the reset,
\* per-field or form-level, is applied.
C27_ResetDropsScheduledValidations ==
  lastFieldEvent.name = "reset" =>
    /\ errors = [k \in Keys |-> <<>>]
    /\ warnings = [k \in Keys |-> <<>>]
    /\ ~isValid


\* C26: an execute call made while an earlier one is outstanding cancels the
\* earlier one: when the earlier apiCall() settles, data and error stay as they
\* are, and loading is true for as long as the newest call is outstanding and
\* has not been cancelled.
C26_SupersededCallIsDropped ==
  [][ /\ \A c \in Calls :
           ( /\ apiCall[c] = "outstanding"
             /\ apiCall'[c] # "outstanding"
             /\ c \in aborted )
           => (data' = data /\ apiError' = apiError)
      /\ ( /\ abortControllerRef' # Null
           /\ apiCall'[abortControllerRef'] = "outstanding"
           /\ abortControllerRef' \notin aborted' )
         => loading'
    ]_vars


\* the step in which the catch block of handleFileSelect ran: the upload call
\* ended and set an error; likewise for handleAnalyze
UploadFailedStep ==
  uploadCall = "awaitUpload" /\ uploadCall' = "idle" /\ appError' # appError
AnalysisFailedStep ==
  analyzeCall # "idle" /\ analyzeCall' = "idle" /\ appError' # appError

C29_PollTerminates ==
  /\ [](statusRequests <= maxAttempts)
  /\ [](analyzeCall = "waiting" => attempt < maxAttempts - 1)
  /\ (analyzeCall \in {"awaitStatus", "waiting"}) ~> (analyzeCall = "idle")

\* the poll ended by the timeout right after the answer to its last request
C29_Witness ==
  /\ analyzeCall = "idle"
  /\ statusRequests = maxAttempts
  /\ attempt = maxAttempts
  /\ lastStatus \in {"processing", "pending", "nodata"}
  /\ appError = "Analysis timed out"


\* C30: when pollAnalysis has used up all maxAttempts and its last answer was
\* not a terminal status (a processing or pending status, no analysis_data,
\* or a 404), the error it throws is the timeout error 'Analysis timed out'.
C30_ExhaustionIsTimeout ==
  [][ ( /\ analyzeCall = "awaitStatus"
        /\ analyzeCall' = "idle"
        /\ statusRequests' = maxAttempts
        /\ \/ lastStatus' \in {"processing", "pending", "nodata"}
           \/ lastStatus' = "error" /\ consecutive404' > 0 )
      => appError' = "Analysis timed out"
    ]_vars

====
